---- MODULE Spec2Model ----
\* Account-management front end (Login, Profile, route guards) against the
\* identity provider and the row-level-secured record store of the migrations.
\* Each action is one run of a handler from one await to the next: JavaScript
\* runs the code between two awaits without interleaving.
EXTENDS Integers, Sequences, FiniteSets, TLC

VARIABLES
    session,          \* identity provider: the client's session identity (auth.uid()), or NULL
    user,             \* useAuth(): the identity the UI observes
    loading,          \* useAuth(): session not resolved yet
    location,         \* router path
    profiles,         \* table public.profiles: id -> row
    login_history,    \* table public.login_history, in insertion (timestamp) order
    profile_changes,  \* table public.profile_changes, in insertion (timestamp) order
    lpc,              \* Login.onSubmit: "idle", or the await it is suspended at
    ldata,            \* Login.onSubmit: the submitted form data
    lerror,           \* Login.onSubmit: the provider's error, or NULL
    lcalls,           \* Login.onSubmit: calls issued / returned / UI effects, in order
    profile,          \* Profile: useState profile (the snapshot), or NULL
    changes,          \* Profile: useState changes (newest first)
    loginHistory,     \* Profile: useState loginHistory (newest first)
    form,             \* Profile: the form's field values
    mountLoads,       \* Profile: loaders started by useEffect and not returned yet
    mountToasts,      \* Profile: failure toasts of the useEffect loaders
    ppc,              \* Profile.onSubmit: "idle" or "await"
    pstep,            \* Profile.onSubmit: index in OnSubmitSteps of the awaited step
    pdata,            \* Profile.onSubmit: the submitted form data
    psnap,            \* Profile.onSubmit: `profile` as captured by the handler's closure
    puser,            \* Profile.onSubmit: `user` as captured by the handler's closure
    pcalls,           \* Profile.onSubmit: calls issued / returned / UI effects, in order
    nLogins,          \* sign-in submissions so far
    nSaves,           \* profile submissions so far
    nFaults,          \* remote calls that failed in transit so far
    rpc,              \* Register page: position of onSubmit
    rdata,            \* Register page: the form data submitted
    rtoast,           \* Register page: the toast shown by the last submission
    nRegs,            \* registrations submitted so far
    detached,         \* Profile page: the onSubmit still running of an instance that unmounted
    api               \* Record Store: the last request made straight to its API

vars == <<session, user, loading, location, profiles, login_history, profile_changes,
          lpc, ldata, lerror, lcalls,
          profile, changes, loginHistory, form, mountLoads, mountToasts,
          ppc, pstep, pdata, psnap, puser, pcalls, nLogins, nSaves, nFaults,
          rpc, rdata, rtoast, nRegs, detached, api>>

authVars    == <<session, user, loading>>
storeVars   == <<profiles, login_history, profile_changes>>
loginVars   == <<lpc, ldata, lerror, lcalls>>
pageVars    == <<profile, changes, loginHistory, form, mountLoads, mountToasts>>
cycleVars   == <<ppc, pstep, pdata, psnap, puser, pcalls>>
regVars     == <<rpc, rdata, rtoast>>
appVars     == <<authVars, location, loginVars, pageVars, cycleVars, regVars,
                 nLogins, nSaves, nRegs, nFaults, detached>>

----------------------------------------------------------------------------
\* Bounds and value domains

\* form submissions (sign-in and profile) in one behaviour
MaxSubmits == 2
\* remote calls that fail in transit in one behaviour
MaxFaults == 1
\* rows a history table holds when requests are made straight to the store
MaxRows == 2

\* JavaScript null / undefined and SQL NULL (an undefined property is not sent,
\* so the column takes its NULL default)
NULL == "<null>"

Users == {"U1", "U2"}
Emails == {"a@b.com", "c@d.com", "x@y.com"}
Passwords == {"Passw0rd", "Wr0ngpass", "short"}
EmailInputs == Emails \cup {"nope"}
Names == {"Al", "Bo"}
Surnames == {"Li", "Wu"}
PhoneInputs == {"", "555"}

\* the identity registered for an e-mail address, if any
Account(email) ==
    CASE email = "a@b.com" -> "U1"
      [] email = "c@d.com" -> "U2"
      [] OTHER -> NULL

\* String.length of the strings in use
StrLen(s) ==
    CASE s = "" -> 0
      [] s \in Names \cup Surnames -> 2
      [] s = "555" -> 3
      [] s = "short" -> 5
      [] s = "Passw0rd!" -> 9
      [] OTHER -> 8

DeviceInfo == "platform - userAgent"

\* outcomes of a call to the remote store, besides what the store itself decides
Faults == {"none", "error", "throw"}

\* a remote call returns with the given fault (none: the store or provider answers)
Transit(fault) ==
    /\ fault # "none" => nFaults < MaxFaults
    /\ nFaults' = IF fault = "none" THEN nFaults ELSE nFaults + 1

----------------------------------------------------------------------------
\* Call log entries

Issue(op, arg)  == [ev |-> "issue", op |-> op, arg |-> arg]
Return(op, res) == [ev |-> "return", op |-> op, arg |-> res]
Effect(op, arg) == [ev |-> "effect", op |-> op, arg |-> arg]

----------------------------------------------------------------------------
\* Record Store: schema and row-level policies

\* login_history: user_id UUID REFERENCES auth.users NOT NULL, success BOOLEAN NOT NULL
LoginHistorySchema(row) ==
    /\ row.user_id \in Users
    /\ row.success \in BOOLEAN

\* mutant: an insert that replaces the table's content
InsertReplacing(table, row) == <<row>>

\* .insert(row) on a table whose rows nothing else writes: the row is added
Insert(table, row) == Append(table, row)

\* mutant: the policy without TO authenticated
LoginHistoryInsertPolicyToPublic(uid, row) ==
    uid = row.user_id \/ uid = NULL

\* "Users can insert own login history": FOR INSERT TO authenticated
\*   WITH CHECK (auth.uid() = user_id OR auth.uid() IS NULL)
LoginHistoryInsertPolicy(uid, row) ==
    /\ uid # NULL
    /\ (uid = row.user_id \/ uid = NULL)

\* profile_changes: user_id UUID REFERENCES auth.users NOT NULL, field_changed NOT NULL
ProfileChangesSchema(row) ==
    /\ row.user_id \in Users
    /\ row.field_changed # NULL
    /\ row.changed_by \in Users \cup {NULL}

\* "Users can insert own profile changes": FOR INSERT TO authenticated
\*   WITH CHECK (auth.uid() = user_id)
ProfileChangesInsertPolicy(uid, row) ==
    /\ uid # NULL
    /\ uid = row.user_id

\* "Users can view own profile" / "Users can update own profile": USING (auth.uid() = id)
ProfilesPolicy(uid, id) == uid # NULL /\ uid = id

\* "Users can view own profile changes": USING (auth.uid() = user_id)
ProfileChangesSelectPolicy(uid, row) == uid # NULL /\ uid = row.user_id

\* "Users can view own login history": USING (auth.uid() = user_id)
LoginHistorySelectPolicy(uid, row) == uid # NULL /\ uid = row.user_id

\* the store's answer to an insert that reached it
InsertResult(fault, accepted) ==
    IF fault # "none" THEN fault ELSE IF accepted THEN "ok" ELSE "error"

RECURSIVE Reverse(_)
Reverse(s) == IF s = <<>> THEN <<>> ELSE Append(Reverse(Tail(s)), Head(s))

\* the rows with user_id = id that the caller uid may read, in table order
VisibleProfileChanges(uid, id) ==
    LET Test(row) == row.user_id = id /\ ProfileChangesSelectPolicy(uid, row)
    IN  SelectSeq(profile_changes, Test)

VisibleLoginHistory(uid, id) ==
    LET Test(row) == row.user_id = id /\ LoginHistorySelectPolicy(uid, row)
    IN  SelectSeq(login_history, Test)

----------------------------------------------------------------------------
\* Session observer and route guards

AuthPaths      == {"/login", "/register"}
ProtectedPaths == {"/", "/profile"}

\* AuthLayout: what the login / register layout returns
AuthLayoutRender(u) == IF u # NULL THEN "redirect" ELSE "outlet"

\* AuthLayout: the path it leaves the router on
AuthLayout(loc, u) == IF AuthLayoutRender(u) = "redirect" THEN "/" ELSE loc

\* mutant: the guard without its loading check
ProtectedRenderNoLoading(u, ld) == IF u = NULL THEN "redirect" ELSE "outlet"

\* ProtectedRoute: what the dashboard / profile guard returns
ProtectedRender(u, ld) ==
    IF ld THEN "loading" ELSE IF u = NULL THEN "redirect" ELSE "outlet"

\* ProtectedRoute: the path it leaves the router on
ProtectedRoute(loc, u, ld) ==
    IF ProtectedRender(u, ld) = "redirect" THEN "/login" ELSE loc

\* App: the route table, one guard per group of paths
Guard(loc, u, ld) ==
    IF loc \in AuthPaths THEN AuthLayout(loc, u)
    ELSE ProtectedRoute(loc, u, ld)

\* the path the router settles on (a redirect is rendered under its own guard)
Route(loc, u, ld) == Guard(Guard(loc, u, ld), u, ld)

----------------------------------------------------------------------------
\* Identity provider

\* signInWithPassword: the session's identity, or the provider's error message
signInWithPassword(email, password) ==
    IF Account(email) # NULL /\ password = "Passw0rd"
    THEN [user |-> Account(email), error |-> NULL]
    ELSE [user |-> NULL, error |-> "Invalid login credentials"]

\* the session observer resolves the stored session (getSession on start-up)
SessionResolved ==
    /\ UNCHANGED <<nFaults, api, detached, regVars, nRegs>>
    /\ loading
    /\ loading' = FALSE
    /\ user' = session
    /\ location' = Route(location, session, FALSE)
    /\ UNCHANGED <<session, storeVars, loginVars, pageVars, cycleVars, nLogins, nSaves>>

----------------------------------------------------------------------------
\* Login page

LoginInputs == [email : EmailInputs, password : Passwords]

\* loginSchema, applied by handleSubmit before onSubmit runs
loginSchema(data) ==
    /\ data.email \in Emails
    /\ StrLen(data.password) >= 8

\* mutant: the failure reason is not passed on
LoginAttemptRowNoReason(userId, success, failureReason) ==
    [user_id |-> userId, success |-> success,
     device_info |-> DeviceInfo, failure_reason |-> NULL]

\* recordLoginAttempt: the row it inserts
LoginAttemptRow(userId, success, failureReason) ==
    [user_id |-> userId, success |-> success,
     device_info |-> DeviceInfo, failure_reason |-> failureReason]

\* mutant: the recorder without its try / catch
RecordLoginAttemptNoCatch(res) == res = "throw"

\* recordLoginAttempt: what it lets out to its caller for each outcome of the
\* insert; the result's error field is not read and a throw is caught
RecordLoginAttemptRaises(res) == FALSE

\* recordLoginAttempt: what follows the insert's return inside the recorder
RecordLoginAttemptLog(res) ==
    IF res = "throw"
    THEN <<Effect("console.error", "Failed to record login attempt:")>>
    ELSE <<>>

\* onSubmit up to `await supabase.auth.signInWithPassword`
LoginSubmit(data) ==
    /\ UNCHANGED <<nFaults, api, detached, regVars, nRegs>>
    /\ location = "/login"
    /\ lpc = "idle"
    /\ nLogins + nSaves + nRegs < MaxSubmits
    /\ loginSchema(data)
    /\ lpc' = "signIn"
    /\ ldata' = data
    /\ lerror' = NULL
    /\ lcalls' = <<Issue("signInWithPassword", data)>>
    /\ nLogins' = nLogins + 1
    /\ UNCHANGED <<authVars, location, storeVars, pageVars, cycleVars, nSaves>>

\* onSubmit from the provider's answer to the next await (or to its end)
SignInReturn(fault) ==
    /\ Transit(fault)
    /\ UNCHANGED <<api, detached, regVars, nRegs>>
    /\ fault # "error"
    /\ lpc = "signIn"
    /\ LET res == signInWithPassword(ldata.email, ldata.password)
           log == Append(lcalls, Return("signInWithPassword",
                                        IF fault = "throw" THEN "throw"
                                        ELSE IF res.error # NULL THEN "error" ELSE "ok"))
       IN  IF fault = "throw"
           THEN \* the call rejects: catch
                /\ lcalls' = Append(log, Effect("toast.error", "Failed to sign in. Please check your credentials."))
                /\ lpc' = "idle"
                /\ UNCHANGED <<authVars, location, lerror>>
           ELSE IF res.error # NULL
           THEN \* if (error) { await recordLoginAttempt(data.email, false, error.message)
                /\ lerror' = res.error
                /\ lcalls' = Append(log, Issue("insert login_history",
                                               LoginAttemptRow(ldata.email, FALSE, res.error)))
                /\ lpc' = "recordFailure"
                /\ UNCHANGED <<authVars, location>>
           ELSE \* the provider sets the session and notifies the observer
                /\ session' = res.user
                /\ user' = res.user
                /\ loading' = FALSE
                /\ location' = Route(location, res.user, FALSE)
                /\ lerror' = NULL
                /\ IF res.user # NULL
                   THEN /\ lcalls' = Append(log, Issue("insert login_history",
                                                       LoginAttemptRow(res.user, TRUE, NULL)))
                        /\ lpc' = "recordSuccess"
                   ELSE /\ lcalls' = Append(log, Effect("navigate", "/"))
                        /\ lpc' = "idle"
    /\ UNCHANGED <<ldata, storeVars, pageVars, cycleVars, nLogins, nSaves>>

\* the insert awaited in recordLoginAttempt returns; onSubmit runs to its end
LoginInsertReturn(fault) ==
    /\ Transit(fault)
    /\ UNCHANGED <<api, detached, regVars, nRegs>>
    /\ lpc \in {"recordFailure", "recordSuccess"}
    /\ LET row == lcalls[Len(lcalls)].arg
           res == InsertResult(fault, LoginHistorySchema(row)
                                      /\ LoginHistoryInsertPolicy(session, row))
           log == Append(lcalls, Return("insert login_history", res))
                     \o RecordLoginAttemptLog(res)
       IN  /\ login_history' = IF res = "ok" THEN Insert(login_history, row)
                               ELSE login_history
           /\ IF RecordLoginAttemptRaises(res) \/ lpc = "recordFailure"
              THEN \* throw error (or the recorder's own): catch
                   /\ lcalls' = Append(log, Effect("toast.error", "Failed to sign in. Please check your credentials."))
                   /\ UNCHANGED location
              ELSE \* navigate('/')
                   /\ lcalls' = Append(log, Effect("navigate", "/"))
                   /\ location' = Route("/", user, loading)
    /\ lpc' = "idle"
    /\ UNCHANGED <<authVars, profiles, profile_changes, ldata, lerror,
                   pageVars, cycleVars, nLogins, nSaves>>

----------------------------------------------------------------------------
\* Register page

RegisterInputs ==
    [firstName : {"Al"}, lastName : {"Li"}, email : {"a@b.com", "x@y.com"},
     password : {"Passw0rd", "Passw0rd!"}, phoneNumber : {""}]

EmptyRegister ==
    [firstName |-> "", lastName |-> "", email |-> "", password |-> "", phoneNumber |-> ""]

\* /[^A-Za-z0-9]/ on the passwords in use
HasSpecial(s) == s = "Passw0rd!"

\* registerSchema, applied by handleSubmit before onSubmit runs (the passwords
\* in use all have an upper-case letter, a lower-case letter and a digit)
registerSchema(data) ==
    /\ StrLen(data.firstName) >= 2
    /\ StrLen(data.lastName) >= 2
    /\ data.email \in Emails
    /\ StrLen(data.password) >= 8
    /\ HasSpecial(data.password)

\* the identity the provider creates for a new e-mail address
NewIdentity(email) == "U3"

\* signUp: an address that has an account is refused, a new one gets an
\* identity and no session (its password is none of Passwords, so sign-in
\* with the passwords in use stays refused for it)
signUp(email) ==
    IF Account(email) # NULL \/ NewIdentity(email) \in DOMAIN profiles
    THEN [user |-> NULL, error |-> "User already registered"]
    ELSE [user |-> NewIdentity(email), error |-> NULL]

\* handle_new_user: the trigger's profiles row for a new auth.users row
handle_new_user(id, meta) ==
    [id |-> id, first_name |-> meta.first_name, last_name |-> meta.last_name,
     phone_number |-> NULL, updated_at |-> 0]

\* Login page: the link to the Register page; the Login page unmounts
OpenRegister ==
    /\ UNCHANGED <<nFaults, api, detached, nRegs>>
    /\ location = "/login"
    /\ lpc = "idle"
    /\ location' = Route("/register", user, loading)
    /\ lpc' = "idle"
    /\ ldata' = [email |-> "", password |-> ""]
    /\ lerror' = NULL
    /\ lcalls' = <<>>
    /\ rpc' = "idle"
    /\ rdata' = EmptyRegister
    /\ rtoast' = NULL
    /\ UNCHANGED <<authVars, storeVars, pageVars, cycleVars, nLogins, nSaves>>

\* Register page: the link to the Login page
OpenLogin ==
    /\ UNCHANGED <<nFaults, api, detached, nRegs>>
    /\ location = "/register"
    /\ rpc = "idle"
    /\ location' = Route("/login", user, loading)
    /\ rtoast' = NULL
    /\ UNCHANGED <<rpc, rdata>>
    /\ UNCHANGED <<authVars, storeVars, loginVars, pageVars, cycleVars, nLogins, nSaves>>

\* handleSubmit(onSubmit) up to `await supabase.auth.signUp(...)`
RegisterSubmit(data) ==
    /\ UNCHANGED <<nFaults, api, detached>>
    /\ location = "/register"
    /\ rpc = "idle"
    /\ nLogins + nSaves + nRegs < MaxSubmits
    /\ registerSchema(data)
    /\ rpc' = "await"
    /\ rdata' = data
    /\ rtoast' = NULL
    /\ nRegs' = nRegs + 1
    /\ UNCHANGED <<authVars, location, storeVars, loginVars, pageVars, cycleVars,
                   nLogins, nSaves>>

\* onSubmit from the provider's answer to its end
SignUpReturn(fault) ==
    /\ Transit(fault)
    /\ UNCHANGED <<api, detached, nRegs>>
    /\ rpc = "await"
    /\ LET res == signUp(rdata.email)
           ok  == fault = "none" /\ res.error = NULL
       IN  /\ profiles' =
                 IF ok
                 THEN [id \in DOMAIN profiles \cup {res.user} |->
                          IF id = res.user
                          THEN handle_new_user(res.user,
                                               [first_name |-> rdata.firstName,
                                                last_name |-> rdata.lastName])
                          ELSE profiles[id]]
                 ELSE profiles
           /\ rtoast' = IF ok THEN "Registration successful! Please sign in."
                        ELSE "Failed to register. Please try again."
           /\ location' = IF ok THEN Route("/login", user, loading) ELSE location
    /\ rpc' = "idle"
    /\ rdata' = EmptyRegister
    /\ UNCHANGED <<authVars, login_history, profile_changes, loginVars, pageVars, cycleVars,
                   nLogins, nSaves>>

----------------------------------------------------------------------------
\* Profile page

ProfileFields == {"first_name", "last_name", "phone_number"}

\* mutant: the update issued before the phone number is audited
OnSubmitStepsUpdateEarly ==
    <<"first_name", "last_name", "update", "phone_number", "loadProfile", "loadProfileChanges">>

\* mutant: onSubmit without its two re-fetches
OnSubmitStepsNoReload ==
    <<"first_name", "last_name", "phone_number", "update">>

\* mutant: the last name compared and recorded before the first name
OnSubmitStepsLastNameFirst ==
    <<"last_name", "first_name", "phone_number", "update", "loadProfile", "loadProfileChanges">>

\* the awaited steps of onSubmit, in program order
OnSubmitSteps ==
    <<"first_name", "last_name", "phone_number", "update", "loadProfile", "loadProfileChanges">>

ProfileInputs == [firstName : Names \cup {""}, lastName : Surnames, phoneNumber : PhoneInputs]

\* `null` where a Profile row is expected (useState<Profile | null>)
NullProfile ==
    [id |-> NULL, first_name |-> NULL, last_name |-> NULL, phone_number |-> NULL,
     updated_at |-> 0]

EmptyForm == [firstName |-> "", lastName |-> "", phoneNumber |-> ""]

\* profileSchema, applied by handleSubmit before onSubmit runs
profileSchema(data) ==
    /\ StrLen(data.firstName) >= 2
    /\ StrLen(data.lastName) >= 2

\* JavaScript `v || null` and `v || ''` on a string or null
OrNull(v)  == IF v = NULL \/ v = "" THEN NULL ELSE v
OrEmpty(v) == IF v = NULL \/ v = "" THEN "" ELSE v

\* the submitted value and the snapshot's value of a field
FormValue(field, data) ==
    CASE field = "first_name" -> data.firstName
      [] field = "last_name" -> data.lastName
      [] field = "phone_number" -> data.phoneNumber

SnapValue(field, prof) ==
    CASE field = "first_name" -> prof.first_name
      [] field = "last_name" -> prof.last_name
      [] field = "phone_number" -> prof.phone_number

\* onSubmit: the three `!==` tests
FieldChanged(field, data, prof) == FormValue(field, data) # SnapValue(field, prof)

\* onSubmit: the old and new value handed to recordProfileChange
RecordedOld(field, prof) ==
    IF field = "phone_number" THEN OrNull(prof.phone_number) ELSE SnapValue(field, prof)

RecordedNew(field, data) ==
    IF field = "phone_number" THEN OrNull(data.phoneNumber) ELSE FormValue(field, data)

\* recordProfileChange: the row it inserts
ProfileChangeRow(uid, fieldName, oldValue, newValue) ==
    [user_id |-> uid, field_changed |-> fieldName,
     old_value |-> oldValue, new_value |-> newValue, changed_by |-> uid]

\* recordProfileChange: whether an outcome of the insert leaves it as an exception
\* (the result's error is logged; the await is not inside a try)
RecordProfileChangeRaises(res) == res = "throw"

\* recordProfileChange: what follows the insert's return inside the recorder
RecordProfileChangeLog(res) ==
    IF res = "error"
    THEN <<Effect("console.error", "Failed to record profile change:")>>
    ELSE <<>>

\* onSubmit: the values of the profiles update
UpdateValues(data, now) ==
    [first_name |-> data.firstName, last_name |-> data.lastName,
     phone_number |-> data.phoneNumber, updated_at |-> now]

\* mutant: the update's error value is not tested
UpdateRaisesOnThrowOnly(res) == res = "throw"

\* onSubmit after the update: `if (error) throw error`, or the await itself throws
UpdateRaises(res) == res # "ok"

\* loadProfile: reset(...) of the form from the loaded row
ResetForm(row) ==
    [firstName |-> row.first_name, lastName |-> row.last_name,
     phoneNumber |-> OrEmpty(row.phone_number)]

\* whether onSubmit awaits a call at a step
StepRuns(s, data, prof) ==
    IF s \in ProfileFields THEN FieldChanged(s, data, prof) ELSE TRUE

\* the first step from i on at which onSubmit awaits a call (Len + 1: none)
NextStep(i, data, prof) ==
    LET js == {j \in i..Len(OnSubmitSteps) : StepRuns(OnSubmitSteps[j], data, prof)}
    IN  IF js = {} THEN Len(OnSubmitSteps) + 1
        ELSE CHOOSE j \in js : \A k \in js : j <= k

\* the call a step issues
IssueOf(s, data, prof, uid, now) ==
    CASE s \in ProfileFields ->
            Issue("insert profile_changes",
                  ProfileChangeRow(uid, s, RecordedOld(s, prof), RecordedNew(s, data)))
      [] s = "update" -> Issue("update profiles", UpdateValues(data, now))
      [] s = "loadProfile" -> Issue("select profiles", uid)
      [] s = "loadProfileChanges" -> Issue("select profile_changes", uid)

\* onSubmit runs from step i to its next await, or to its end
Continue(i, log) ==
    LET j == NextStep(i, pdata', psnap')
    IN  IF j > Len(OnSubmitSteps)
        THEN /\ ppc' = "idle"
             /\ pstep' = 0
             /\ pcalls' = log
        ELSE /\ ppc' = "await"
             /\ pstep' = j
             /\ pcalls' = Append(log, IssueOf(OnSubmitSteps[j], pdata', psnap', puser', nSaves'))

\* onSubmit's catch block
Catch(log) ==
    /\ ppc' = "idle"
    /\ pstep' = 0
    /\ pcalls' = Append(log, Effect("toast.error", "Failed to update profile"))

\* the store's answer to a select or an update that reached it
CallResult(fault) == IF fault # "none" THEN fault ELSE "ok"

\* select * from profiles where id = uid, .single()
SelectProfile(fault, uid) ==
    IF CallResult(fault) # "ok" THEN [res |-> CallResult(fault), data |-> NullProfile]
    ELSE IF uid \in DOMAIN profiles /\ ProfilesPolicy(session, uid)
         THEN [res |-> "ok", data |-> profiles[uid]]
         ELSE [res |-> "error", data |-> NullProfile]

\* select * from profile_changes where user_id = uid order by change_timestamp desc
SelectProfileChanges(fault, uid) ==
    IF CallResult(fault) # "ok" THEN [res |-> CallResult(fault), data |-> <<>>]
    ELSE [res |-> "ok", data |-> Reverse(VisibleProfileChanges(session, uid))]

\* select * from login_history where user_id = uid order by login_timestamp desc
SelectLoginHistory(fault, uid) ==
    IF CallResult(fault) # "ok" THEN [res |-> CallResult(fault), data |-> <<>>]
    ELSE [res |-> "ok", data |-> Reverse(VisibleLoginHistory(session, uid))]

\* Navbar: the Profile link (followed once the sign-in handler has run to its
\* end); the page mounts and useEffect starts the three loaders
OpenProfile ==
    /\ UNCHANGED <<nFaults, api, detached, regVars, nRegs>>
    /\ location = "/"
    /\ ~loading /\ user # NULL
    /\ lpc = "idle"
    /\ location' = Route("/profile", user, loading)
    /\ profile' = NullProfile
    /\ changes' = <<>>
    /\ loginHistory' = <<>>
    /\ form' = EmptyForm
    /\ mountLoads' = {"loadProfile", "loadProfileChanges", "loadLoginHistory"}
    /\ mountToasts' = {}
    /\ UNCHANGED <<authVars, storeVars, loginVars, cycleVars, nLogins, nSaves>>

\* Navbar: the home link; the Profile page unmounts (between submissions) and
\* its state and handler closures are dropped
OpenDashboard ==
    /\ UNCHANGED <<nFaults, api, detached, regVars, nRegs>>
    /\ location = "/profile"
    /\ ppc = "idle"
    /\ location' = Route("/", user, loading)
    /\ profile' = NullProfile
    /\ changes' = <<>>
    /\ loginHistory' = <<>>
    /\ form' = EmptyForm
    /\ mountLoads' = {}
    /\ mountToasts' = {}
    /\ ppc' = "idle"
    /\ pstep' = 0
    /\ pdata' = EmptyForm
    /\ psnap' = NullProfile
    /\ puser' = NULL
    /\ pcalls' = <<>>
    /\ UNCHANGED <<authVars, storeVars, loginVars, nLogins, nSaves>>

\* Navbar.handleLogout: signOut, then navigate('/login') (between submissions);
\* the protected page unmounts and the Login page mounts afresh
Logout ==
    /\ UNCHANGED <<nFaults, api, detached, regVars, nRegs>>
    /\ location \in {"/", "/profile"}
    /\ ~loading /\ user # NULL
    /\ ppc = "idle" /\ lpc = "idle"
    /\ session' = NULL
    /\ user' = NULL
    /\ location' = Route("/login", NULL, loading)
    /\ profile' = NullProfile
    /\ changes' = <<>>
    /\ loginHistory' = <<>>
    /\ form' = EmptyForm
    /\ mountLoads' = {}
    /\ mountToasts' = {}
    /\ ppc' = "idle"
    /\ pstep' = 0
    /\ pdata' = EmptyForm
    /\ psnap' = NullProfile
    /\ puser' = NULL
    /\ pcalls' = <<>>
    /\ lpc' = "idle"
    /\ ldata' = [email |-> "", password |-> ""]
    /\ lerror' = NULL
    /\ lcalls' = <<>>
    /\ UNCHANGED <<loading, storeVars, nLogins, nSaves>>

\* a loader started by useEffect returns
MountLoadReturn(which, fault) ==
    /\ Transit(fault)
    /\ UNCHANGED <<api, detached, regVars, nRegs>>
    /\ which \in mountLoads
    /\ fault # "throw"
    /\ mountLoads' = mountLoads \ {which}
    /\ CASE which = "loadProfile" ->
              LET r == SelectProfile(fault, user)
              IN  IF r.res = "ok"
                  THEN /\ profile' = r.data
                       /\ form' = ResetForm(r.data)
                       /\ UNCHANGED <<changes, loginHistory, mountToasts>>
                  ELSE /\ mountToasts' = mountToasts \cup {"Failed to load profile"}
                       /\ UNCHANGED <<profile, form, changes, loginHistory>>
         [] which = "loadProfileChanges" ->
              LET r == SelectProfileChanges(fault, user)
              IN  IF r.res = "ok"
                  THEN /\ changes' = r.data
                       /\ UNCHANGED <<profile, form, loginHistory, mountToasts>>
                  ELSE /\ mountToasts' = mountToasts \cup {"Failed to load profile changes"}
                       /\ UNCHANGED <<profile, form, changes, loginHistory>>
         [] which = "loadLoginHistory" ->
              LET r == SelectLoginHistory(fault, user)
              IN  IF r.res = "ok"
                  THEN /\ loginHistory' = r.data
                       /\ UNCHANGED <<profile, form, changes, mountToasts>>
                  ELSE /\ mountToasts' = mountToasts \cup {"Failed to load login history"}
                       /\ UNCHANGED <<profile, form, changes, loginHistory>>
    /\ UNCHANGED <<authVars, location, storeVars, loginVars, cycleVars, nLogins, nSaves>>

\* onSubmit up to its first await
ProfileSubmit(data) ==
    /\ UNCHANGED <<nFaults, api, detached, regVars, nRegs>>
    /\ location = "/profile"
    /\ ppc = "idle"
    /\ nLogins + nSaves + nRegs < MaxSubmits
    /\ profileSchema(data)
    /\ nSaves' = nSaves + 1
    /\ form' = data
    /\ IF user = NULL \/ profile = NullProfile
       THEN \* if (!user || !profile) return
            /\ pcalls' = <<>>
            /\ UNCHANGED <<ppc, pstep, pdata, psnap, puser>>
       ELSE /\ pdata' = data
            /\ psnap' = profile
            /\ puser' = user
            /\ Continue(1, <<>>)
    /\ UNCHANGED <<authVars, location, storeVars, loginVars, profile, changes,
                   loginHistory, mountLoads, mountToasts, nLogins>>

\* the insert awaited in recordProfileChange returns
ProfileChangeInsertReturn(fault) ==
    /\ Transit(fault)
    /\ UNCHANGED <<api, detached, regVars, nRegs>>
    /\ ppc = "await"
    /\ OnSubmitSteps[pstep] \in ProfileFields
    /\ LET row == pcalls[Len(pcalls)].arg
           res == InsertResult(fault, ProfileChangesSchema(row)
                                      /\ ProfileChangesInsertPolicy(session, row))
           log == Append(pcalls, Return("insert profile_changes", res))
                     \o RecordProfileChangeLog(res)
       IN  /\ profile_changes' = IF res = "ok" THEN Insert(profile_changes, row)
                                 ELSE profile_changes
           /\ UNCHANGED <<pdata, psnap, puser, nSaves>>
           /\ IF RecordProfileChangeRaises(res) THEN Catch(log)
              ELSE Continue(pstep + 1, log)
    /\ UNCHANGED <<authVars, location, profiles, login_history, loginVars, pageVars, nLogins>>

\* the profiles update returns
ProfileUpdateReturn(fault) ==
    /\ Transit(fault)
    /\ UNCHANGED <<api, detached, regVars, nRegs>>
    /\ ppc = "await"
    /\ OnSubmitSteps[pstep] = "update"
    /\ LET res == CallResult(fault)
           set == pcalls[Len(pcalls)].arg
           log == Append(pcalls, Return("update profiles", res))
       IN  /\ profiles' = IF res = "ok" /\ puser \in DOMAIN profiles
                             /\ ProfilesPolicy(session, puser)
                          THEN [profiles EXCEPT ![puser] =
                                  [id |-> puser, first_name |-> set.first_name,
                                   last_name |-> set.last_name,
                                   phone_number |-> set.phone_number,
                                   updated_at |-> set.updated_at]]
                          ELSE profiles
           /\ UNCHANGED <<pdata, psnap, puser, nSaves>>
           /\ IF UpdateRaises(res) THEN Catch(log)
              ELSE Continue(pstep + 1,
                            Append(log, Effect("toast.success", "Profile updated successfully")))
    /\ UNCHANGED <<authVars, location, login_history, profile_changes, loginVars,
                   pageVars, nLogins>>

\* `await loadProfile()` of onSubmit returns
ReloadProfileReturn(fault) ==
    /\ Transit(fault)
    /\ UNCHANGED <<api, detached, regVars, nRegs>>
    /\ ppc = "await"
    /\ OnSubmitSteps[pstep] = "loadProfile"
    /\ LET r == SelectProfile(fault, puser)
           log == Append(pcalls, Return("select profiles", r.res))
       IN  /\ UNCHANGED <<pdata, psnap, puser, nSaves>>
           /\ CASE r.res = "ok" ->
                    /\ profile' = r.data
                    /\ form' = ResetForm(r.data)
                    /\ Continue(pstep + 1, log)
                [] r.res = "error" ->
                    /\ UNCHANGED <<profile, form>>
                    /\ Continue(pstep + 1,
                                Append(log, Effect("toast.error", "Failed to load profile")))
                [] r.res = "throw" ->
                    /\ UNCHANGED <<profile, form>>
                    /\ Catch(log)
    /\ UNCHANGED <<authVars, location, storeVars, loginVars, changes, loginHistory,
                   mountLoads, mountToasts, nLogins>>

\* `await loadProfileChanges()` of onSubmit returns
ReloadChangesReturn(fault) ==
    /\ Transit(fault)
    /\ UNCHANGED <<api, detached, regVars, nRegs>>
    /\ ppc = "await"
    /\ OnSubmitSteps[pstep] = "loadProfileChanges"
    /\ LET r == SelectProfileChanges(fault, puser)
           log == Append(pcalls, Return("select profile_changes", r.res))
       IN  /\ UNCHANGED <<pdata, psnap, puser, nSaves>>
           /\ CASE r.res = "ok" ->
                    /\ changes' = r.data
                    /\ Continue(pstep + 1, log)
                [] r.res = "error" ->
                    /\ UNCHANGED changes
                    /\ Continue(pstep + 1,
                                Append(log, Effect("toast.error", "Failed to load profile changes")))
                [] r.res = "throw" ->
                    /\ UNCHANGED changes
                    /\ Catch(log)
    /\ UNCHANGED <<authVars, location, storeVars, loginVars, profile, form, loginHistory,
                   mountLoads, mountToasts, nLogins>>

----------------------------------------------------------------------------
\* Profile page left while onSubmit is awaiting a call

\* no onSubmit of an unmounted instance is running
NoCycle ==
    [pc |-> "idle", step |-> 0, data |-> EmptyForm, snap |-> NullProfile, user |-> NULL,
     calls |-> <<>>]

\* Navbar: the Dashboard link followed while onSubmit awaits a call; the page
\* unmounts, the call and the rest of onSubmit stay pending
LeaveDuringSave ==
    /\ UNCHANGED <<nFaults, api, regVars, nRegs>>
    /\ location = "/profile"
    /\ ppc = "await"
    /\ detached.pc = "idle"
    /\ detached' = [pc |-> ppc, step |-> pstep, data |-> pdata, snap |-> psnap,
                    user |-> puser, calls |-> pcalls]
    /\ location' = Route("/", user, loading)
    /\ profile' = NullProfile
    /\ changes' = <<>>
    /\ loginHistory' = <<>>
    /\ form' = EmptyForm
    /\ mountLoads' = {}
    /\ mountToasts' = {}
    /\ ppc' = "idle"
    /\ pstep' = 0
    /\ pdata' = EmptyForm
    /\ psnap' = NullProfile
    /\ puser' = NULL
    /\ pcalls' = <<>>
    /\ UNCHANGED <<authVars, storeVars, loginVars, nLogins, nSaves>>

\* onSubmit of the unmounted instance runs from step i to its next await, or to its end
DetachedContinue(d, i, log) ==
    LET j == NextStep(i, d.data, d.snap)
    IN  IF j > Len(OnSubmitSteps)
        THEN [d EXCEPT !.pc = "idle", !.step = 0, !.calls = log]
        ELSE [d EXCEPT !.pc = "await", !.step = j,
                       !.calls = Append(log, IssueOf(OnSubmitSteps[j], d.data, d.snap,
                                                     d.user, nSaves))]

\* onSubmit's catch block in the unmounted instance
DetachedCatch(d, log) ==
    [d EXCEPT !.pc = "idle", !.step = 0,
              !.calls = Append(log, Effect("toast.error", "Failed to update profile"))]

\* an onSubmit that has run to its end is gone with its instance
Finished(d) == IF d.pc = "idle" THEN NoCycle ELSE d

\* a loader awaited by onSubmit of the unmounted instance has its answer
DetachedLoaded(d, res, log, message) ==
    IF res = "ok" THEN DetachedContinue(d, d.step + 1, log)
    ELSE IF res = "error"
         THEN DetachedContinue(d, d.step + 1, Append(log, Effect("toast.error", message)))
         ELSE DetachedCatch(d, log)

\* the call awaited by the unmounted instance returns: the store is written as
\* by a mounted one, the state setters of the unmounted component do nothing
DetachedReturn(fault) ==
    /\ Transit(fault)
    /\ UNCHANGED <<api, regVars, nRegs>>
    /\ detached.pc = "await"
    /\ LET s   == OnSubmitSteps[detached.step]
           arg == detached.calls[Len(detached.calls)].arg
       IN  CASE s \in ProfileFields ->
                  LET res == InsertResult(fault, ProfileChangesSchema(arg)
                                                 /\ ProfileChangesInsertPolicy(session, arg))
                      log == Append(detached.calls, Return("insert profile_changes", res))
                                \o RecordProfileChangeLog(res)
                  IN  /\ profile_changes' = IF res = "ok" THEN Insert(profile_changes, arg)
                                            ELSE profile_changes
                      /\ UNCHANGED profiles
                      /\ detached' = Finished(IF RecordProfileChangeRaises(res)
                                              THEN DetachedCatch(detached, log)
                                              ELSE DetachedContinue(detached,
                                                      detached.step + 1, log))
             [] s = "update" ->
                  LET res == CallResult(fault)
                      log == Append(detached.calls, Return("update profiles", res))
                  IN  /\ profiles' = IF res = "ok" /\ detached.user \in DOMAIN profiles
                                        /\ ProfilesPolicy(session, detached.user)
                                     THEN [profiles EXCEPT ![detached.user] =
                                             [id |-> detached.user,
                                              first_name |-> arg.first_name,
                                              last_name |-> arg.last_name,
                                              phone_number |-> arg.phone_number,
                                              updated_at |-> arg.updated_at]]
                                     ELSE profiles
                      /\ UNCHANGED profile_changes
                      /\ detached' =
                            Finished(IF UpdateRaises(res) THEN DetachedCatch(detached, log)
                                     ELSE DetachedContinue(detached, detached.step + 1,
                                             Append(log, Effect("toast.success",
                                                         "Profile updated successfully"))))
             [] s = "loadProfile" ->
                  LET r   == SelectProfile(fault, detached.user)
                      log == Append(detached.calls, Return("select profiles", r.res))
                  IN  /\ UNCHANGED <<profiles, profile_changes>>
                      /\ detached' = Finished(DetachedLoaded(detached, r.res, log,
                                                              "Failed to load profile"))
             [] s = "loadProfileChanges" ->
                  LET r   == SelectProfileChanges(fault, detached.user)
                      log == Append(detached.calls,
                                    Return("select profile_changes", r.res))
                  IN  /\ UNCHANGED <<profiles, profile_changes>>
                      /\ detached' = Finished(DetachedLoaded(detached, r.res, log,
                                                     "Failed to load profile changes"))
    /\ UNCHANGED <<authVars, location, login_history, loginVars, pageVars, cycleVars,
                   nLogins, nSaves>>

----------------------------------------------------------------------------
\* Specification

\* no request has been made straight to the store
NoRequest == [caller |-> NULL, op |-> "none", table |-> "none", subjects |-> {}, ok |-> FALSE]

InitialProfiles ==
    [u \in Users |->
        IF u = "U1"
        THEN [id |-> u, first_name |-> "Al", last_name |-> "Li",
              phone_number |-> NULL, updated_at |-> 0]
        ELSE [id |-> u, first_name |-> "Bo", last_name |-> "Wu",
              phone_number |-> "555", updated_at |-> 0]]

\* the application starts with the session the browser has stored, if any, and
\* with the rows earlier sign-ins have left in login_history
Started(stored, history) ==
    /\ session = stored
    /\ user = NULL
    /\ loading = TRUE
    /\ location \in {Route(loc, NULL, TRUE) : loc \in AuthPaths \cup ProtectedPaths}
    /\ profiles = InitialProfiles
    /\ login_history = history
    /\ profile_changes = <<>>
    /\ lpc = "idle"
    /\ ldata = [email |-> "", password |-> ""]
    /\ lerror = NULL
    /\ lcalls = <<>>
    /\ profile = NullProfile
    /\ changes = <<>>
    /\ loginHistory = <<>>
    /\ form = EmptyForm
    /\ mountLoads = {}
    /\ mountToasts = {}
    /\ ppc = "idle"
    /\ pstep = 0
    /\ pdata = EmptyForm
    /\ psnap = NullProfile
    /\ puser = NULL
    /\ pcalls = <<>>
    /\ nLogins = 0
    /\ nSaves = 0
    /\ nFaults = 0
    /\ rpc = "idle"
    /\ rdata = EmptyRegister
    /\ rtoast = NULL
    /\ nRegs = 0
    /\ detached = NoCycle
    /\ api = NoRequest

Init == Started(NULL, <<>>)

Next ==
    \/ SessionResolved
    \/ \E data \in LoginInputs : LoginSubmit(data)
    \/ \E fault \in Faults : SignInReturn(fault)
    \/ \E fault \in Faults : LoginInsertReturn(fault)
    \/ OpenProfile
    \/ OpenDashboard
    \/ Logout
    \/ \E which \in {"loadProfile", "loadProfileChanges", "loadLoginHistory"}, fault \in Faults :
          MountLoadReturn(which, fault)
    \/ \E data \in ProfileInputs : ProfileSubmit(data)
    \/ \E fault \in Faults : ProfileChangeInsertReturn(fault)
    \/ \E fault \in Faults : ProfileUpdateReturn(fault)
    \/ \E fault \in Faults : ReloadProfileReturn(fault)
    \/ \E fault \in Faults : ReloadChangesReturn(fault)
    \/ OpenRegister
    \/ OpenLogin
    \/ \E data \in RegisterInputs : RegisterSubmit(data)
    \/ \E fault \in Faults : SignUpReturn(fault)

Spec == Init /\ [][Next]_vars

\* the application opened on the dashboard with a stored session, and the
\* Profile page free to be left at any moment
InitRemount == Started("U1", <<LoginAttemptRow("U1", TRUE, NULL)>>) /\ location = "/"

\* the identity stays signed in: the steps of the protected pages
NextRemount ==
    \/ SessionResolved
    \/ OpenProfile
    \/ OpenDashboard
    \/ LeaveDuringSave
    \/ \E which \in {"loadProfile", "loadProfileChanges", "loadLoginHistory"}, fault \in Faults :
          MountLoadReturn(which, fault)
    \/ \E data \in ProfileInputs : ProfileSubmit(data)
    \/ \E fault \in Faults : ProfileChangeInsertReturn(fault)
    \/ \E fault \in Faults : ProfileUpdateReturn(fault)
    \/ \E fault \in Faults : ReloadProfileReturn(fault)
    \/ \E fault \in Faults : ReloadChangesReturn(fault)
    \/ \E fault \in Faults : DetachedReturn(fault)

SpecRemount == InitRemount /\ [][NextRemount]_vars

----------------------------------------------------------------------------
\* Record Store API: any client, signed in or not, may send any request; the
\* policies decide.  These requests do not come from the pages above.

Callers == Users \cup {NULL}

Request(caller, op, table, subjects, ok) ==
    [caller |-> caller, op |-> op, table |-> table, subjects |-> subjects, ok |-> ok]

ApiLoginRows == {LoginAttemptRow(u, TRUE, NULL) : u \in Users \cup {"a@b.com"}}

ApiChangeRows ==
    [user_id : Users, field_changed : {"first_name"}, old_value : {"Al"},
     new_value : {"Bo"}, changed_by : Users]

\* profiles has no INSERT policy: with row level security enabled nothing is allowed
ProfilesInsertPolicy(uid, row) == FALSE

\* INSERT INTO login_history
ApiInsertLoginHistory(caller, row) ==
    /\ Len(login_history) < MaxRows
    /\ LET ok == LoginHistorySchema(row) /\ LoginHistoryInsertPolicy(caller, row)
       IN  /\ login_history' = IF ok THEN Insert(login_history, row) ELSE login_history
           /\ api' = Request(caller, "insert", "login_history", {row.user_id}, ok)
    /\ UNCHANGED <<profiles, profile_changes, appVars>>

\* INSERT INTO profile_changes
ApiInsertProfileChange(caller, row) ==
    /\ Len(profile_changes) < MaxRows
    /\ LET ok == ProfileChangesSchema(row) /\ ProfileChangesInsertPolicy(caller, row)
       IN  /\ profile_changes' = IF ok THEN Insert(profile_changes, row) ELSE profile_changes
           /\ api' = Request(caller, "insert", "profile_changes", {row.user_id}, ok)
    /\ UNCHANGED <<profiles, login_history, appVars>>

\* INSERT INTO profiles
ApiInsertProfile(caller, id) ==
    /\ LET row == [id |-> id, first_name |-> "Al", last_name |-> "Li",
                   phone_number |-> NULL, updated_at |-> 0]
           ok == id \notin DOMAIN profiles /\ ProfilesInsertPolicy(caller, row)
       IN  api' = Request(caller, "insert", "profiles", {id}, ok)
    /\ UNCHANGED <<storeVars, appVars>>

\* SELECT * FROM <table>
ApiSelect(caller, table) ==
    /\ api' = Request(caller, "select", table,
                      CASE table = "profiles" ->
                              {id \in DOMAIN profiles : ProfilesPolicy(caller, id)}
                        [] table = "login_history" ->
                              {login_history[i].user_id : i \in
                                 {j \in DOMAIN login_history :
                                    LoginHistorySelectPolicy(caller, login_history[j])}}
                        [] table = "profile_changes" ->
                              {profile_changes[i].user_id : i \in
                                 {j \in DOMAIN profile_changes :
                                    ProfileChangesSelectPolicy(caller, profile_changes[j])}},
                      TRUE)
    /\ UNCHANGED <<storeVars, appVars>>

\* UPDATE profiles SET first_name = name (every row the policy lets the caller see)
ApiUpdateProfiles(caller, name) ==
    /\ LET ids == {id \in DOMAIN profiles : ProfilesPolicy(caller, id)}
       IN  /\ profiles' = [id \in DOMAIN profiles |->
                              IF id \in ids THEN [profiles[id] EXCEPT !.first_name = name]
                              ELSE profiles[id]]
           /\ api' = Request(caller, "update", "profiles", ids, TRUE)
    /\ UNCHANGED <<login_history, profile_changes, appVars>>

NextStore ==
    \/ \E caller \in Callers, row \in ApiLoginRows : ApiInsertLoginHistory(caller, row)
    \/ \E caller \in Callers, row \in ApiChangeRows : ApiInsertProfileChange(caller, row)
    \/ \E caller \in Callers, id \in Users \cup {"U3"} : ApiInsertProfile(caller, id)
    \/ \E caller \in Callers, table \in {"profiles", "login_history", "profile_changes"} :
          ApiSelect(caller, table)
    \/ \E caller \in Callers, name \in Names : ApiUpdateProfiles(caller, name)

InitStore == Init /\ location = "/login"

SpecStore == InitStore /\ [][NextStore]_vars

----------------------------------------------------------------------------
\* Reading the call logs

\* positions in a log of the issues of a call, of its returns, of a UI effect
Issues(log, op)  == {i \in DOMAIN log : log[i].ev = "issue" /\ log[i].op = op}
Returns(log, op) == {i \in DOMAIN log : log[i].ev = "return" /\ log[i].op = op}
Effects(log, op) == {i \in DOMAIN log : log[i].ev = "effect" /\ log[i].op = op}

Inserts == Issues(pcalls, "insert profile_changes")
Updates == Issues(pcalls, "update profiles")

\* a profile mutation cycle has started on the page and has not been dropped
InCycle == pcalls # <<>>

\* section 4.2's comparison: exact, with empty and absent equal for the phone number
Norm(field, v) == IF field = "phone_number" THEN OrNull(v) ELSE v
Differs(field) ==
    Norm(field, FormValue(field, pdata)) # Norm(field, SnapValue(field, psnap))

\* the returns of the insert of the cycle that are failures
FailedInserts ==
    {k \in Returns(pcalls, "insert profile_changes") : pcalls[k].arg # "ok"}

\* the outcome of the sign-in call of the current submission, if it has returned
SignInOutcome ==
    IF Returns(lcalls, "signInWithPassword") = {} THEN "none" ELSE lcalls[2].arg

LoginInserts == Issues(lcalls, "insert login_history")

----------------------------------------------------------------------------
\* Claims

\* C1: once the diff of a submission is done (the update is issued), the
\* profile-change inserts issued are exactly one per field that differs from
\* the snapshot, each with the field's name, the snapshot's value as old value
\* and the submitted value as new value.
C1_OneRecordPerChangedField ==
    (InCycle /\ Updates # {}) =>
        /\ Cardinality(Inserts) = Cardinality({f \in ProfileFields : Differs(f)})
        /\ \A f \in ProfileFields :
              Differs(f) <=>
                 \E i \in Inserts :
                    /\ pcalls[i].arg.field_changed = f
                    /\ pcalls[i].arg.old_value = Norm(f, SnapValue(f, psnap))
                    /\ pcalls[i].arg.new_value = Norm(f, FormValue(f, pdata))

\* C2: in a cycle every profile-change insert is issued and has returned before
\* the update is issued, none is issued after it, and every field the update
\* changes has had its insert attempted by then.
C2_AuditBeforeCommit ==
    \A u \in Updates :
        /\ \A j \in Inserts :
              /\ j < u
              /\ \E k \in Returns(pcalls, "insert profile_changes") : j < k /\ k < u
        /\ \A f \in ProfileFields :
              FormValue(f, pdata) # SnapValue(f, psnap) =>
                 \E j \in Inserts : j < u /\ pcalls[j].arg.field_changed = f

\* C2 witness: the update is issued after two inserts have returned
C2_Witness ==
    /\ Updates # {}
    /\ Cardinality(Inserts) >= 2
    /\ ppc = "await" /\ OnSubmitSteps[pstep] = "update"

\* C3: a submission in which no field differs from the loaded snapshot issues
\* no profile-change insert and exactly one update.
C3_NoChangeNoRecord ==
    (InCycle /\ \A f \in ProfileFields : ~Differs(f)) =>
        /\ Inserts = {}
        /\ Cardinality(Updates) = 1

\* C4: empty string against absent (either way round) in the phone number
\* produces no phone_number record.
C4_EmptyEqualsAbsent ==
    (InCycle /\ {pdata.phoneNumber, psnap.phone_number} = {"", NULL}) =>
        \A i \in Inserts : pcalls[i].arg.field_changed # "phone_number"

\* C5: a failed profile-change insert (error value or throw) is not surfaced,
\* and the cycle goes on: the remaining changed fields are audited and the
\* update is issued.
C5_AuditFailureSwallowed ==
    \A k \in FailedInserts :
        /\ \A t \in Effects(pcalls, "toast.error") :
              pcalls[t].arg = "Failed to update profile" => Returns(pcalls, "update profiles") # {}
        /\ ppc = "idle" =>
              /\ Updates # {}
              /\ \A f \in ProfileFields :
                    FormValue(f, pdata) # SnapValue(f, psnap) =>
                       \E j \in Inserts : pcalls[j].arg.field_changed = f

\* C6: a failed login-history insert is swallowed and not retried: accepted
\* credentials still end in navigate('/') with no failure toast, rejected ones
\* in the one sign-in failure toast.
C6_LoginAuditFailureSwallowed ==
    (\E k \in Returns(lcalls, "insert login_history") : lcalls[k].arg # "ok") =>
        /\ Cardinality(LoginInserts) = 1
        /\ lpc = "idle"
        /\ IF SignInOutcome = "ok"
           THEN /\ Effects(lcalls, "toast.error") = {}
                /\ lcalls[Len(lcalls)] = Effect("navigate", "/")
           ELSE /\ Effects(lcalls, "navigate") = {}
                /\ Cardinality(Effects(lcalls, "toast.error")) = 1
                /\ lcalls[Len(lcalls)] =
                      Effect("toast.error", "Failed to sign in. Please check your credentials.")

\* C6 witness: credentials accepted, the insert threw, the handler has ended
C6_Witness ==
    /\ lpc = "idle"
    /\ SignInOutcome = "ok"
    /\ \E k \in Returns(lcalls, "insert login_history") : lcalls[k].arg = "throw"

\* C7: the step in which the profiles update fails ends the cycle: snapshot and
\* change history keep their values, nothing is reloaded, no success toast is
\* produced and the save-failure toast is.
C7_CommitFailureAborts ==
    [][ ( /\ ppc = "await"
          /\ OnSubmitSteps[pstep] = "update"
          /\ Len(pcalls') > Len(pcalls)
          /\ pcalls'[Len(pcalls) + 1].arg # "ok" )
        => ( /\ profile' = profile
             /\ changes' = changes
             /\ form' = form
             /\ ppc' = "idle"
             /\ Issues(pcalls', "select profiles") = {}
             /\ Issues(pcalls', "select profile_changes") = {}
             /\ Effects(pcalls', "toast.success") = {}
             /\ pcalls'[Len(pcalls')] = Effect("toast.error", "Failed to update profile")
             /\ profile' = psnap ) ]_vars

\* C7 witness: the update failed after two audit records were written
C7_Witness ==
    /\ ppc = "idle"
    /\ \E r \in Returns(pcalls, "update profiles") : pcalls[r].arg # "ok"
    /\ Cardinality({k \in Returns(pcalls, "insert profile_changes") : pcalls[k].arg = "ok"}) = 2

\* C8: rejected credentials: exactly one login-history insert, with
\* success = false, the submitted e-mail as subject and the provider's message
\* as reason; the failure toast comes after that insert has returned and
\* nothing navigates.
C8_RejectedSignIn ==
    SignInOutcome = "error" =>
        /\ Cardinality(LoginInserts) = 1
        /\ \A i \in LoginInserts :
              /\ lcalls[i].arg.user_id = ldata.email
              /\ lcalls[i].arg.success = FALSE
              /\ lcalls[i].arg.failure_reason
                    = signInWithPassword(ldata.email, ldata.password).error
              /\ \A t \in Effects(lcalls, "toast.error") :
                    \E k \in Returns(lcalls, "insert login_history") : i < k /\ k < t
        /\ Effects(lcalls, "navigate") = {}
        /\ location = "/login"
        /\ lpc = "idle" =>
              lcalls[Len(lcalls)] =
                 Effect("toast.error", "Failed to sign in. Please check your credentials.")

\* C8 witness: a rejected sign-in has run to its end
C8_Witness ==
    /\ SignInOutcome = "error"
    /\ lpc = "idle"
    /\ Returns(lcalls, "insert login_history") # {}

\* C9: accepted credentials: exactly one login-history insert, with
\* success = true, the resolved identity as subject and no reason, and the
\* authenticated area is entered only after that insert has returned.
C9_AcceptedSignIn ==
    SignInOutcome = "ok" =>
        /\ Cardinality(LoginInserts) = 1
        /\ \A i \in LoginInserts :
              /\ lcalls[i].arg.user_id = Account(ldata.email)
              /\ lcalls[i].arg.success = TRUE
              /\ lcalls[i].arg.failure_reason = NULL
        /\ location \in {"/", "/profile"} => Returns(lcalls, "insert login_history") # {}

\* C10: with every call reaching the store, each sign-in submission that has
\* run to its end has left exactly one row in login_history.
C10_OneRowPerSignIn ==
    (lpc = "idle" /\ nFaults = 0) => Len(login_history) = nLogins

\* C11: whatever a caller's request to the store is allowed to read, insert or
\* update is a row whose subject identity is the caller's own authenticated
\* identity; a caller without identity is allowed nothing.
C11_OwnRowsOnly ==
    (api.op # "none" /\ api.ok) =>
        /\ api.subjects \subseteq {api.caller}
        /\ api.caller = NULL => api.subjects = {}
        /\ api.op = "insert" => api.caller # NULL /\ api.table # "profiles"

\* C11 witness: a caller reads a history table that also holds another
\* identity's row, and is given its own rows
C11_Witness ==
    /\ api.op = "select" /\ api.table = "login_history"
    /\ api.subjects = {"U1"}
    /\ \E i \in DOMAIN login_history : login_history[i].user_id = "U2"

\* the place of a field in the order first name, last name, phone number
FieldRank(field) ==
    CASE field = "first_name" -> 1 [] field = "last_name" -> 2 [] field = "phone_number" -> 3

\* C15: within one submission the profile-change inserts are issued in the
\* order first name, last name, phone number, no field twice, and each insert
\* has returned before the next one is issued.
C15_InsertsInOrderOneAtATime ==
    \A i, j \in Inserts :
        i < j =>
           /\ FieldRank(pcalls[i].arg.field_changed) < FieldRank(pcalls[j].arg.field_changed)
           /\ \E k \in Returns(pcalls, "insert profile_changes") : i < k /\ k < j

\* C15 witness: a submission that changed all three fields has issued its third insert
C15_Witness ==
    /\ Cardinality(Inserts) = 3
    /\ \A f \in ProfileFields : \E i \in Inserts : pcalls[i].arg.field_changed = f

\* what the guard of the current path has on screen
Rendered ==
    IF location \in AuthPaths THEN AuthLayoutRender(user) ELSE ProtectedRender(user, loading)

\* C16: a protected page is on screen only when loading has finished and an
\* identity is present; while loading the protected guard shows neither the
\* page nor a redirect; once loading has finished without identity no
\* protected path is kept (redirect to login); no login / register path is
\* kept while an identity is present (redirect to the dashboard); and in no
\* state does one guard's redirect lead to a redirect of the other.
C16_Guards ==
    /\ (location \in ProtectedPaths /\ Rendered = "outlet") => (~loading /\ user # NULL)
    /\ (location \in ProtectedPaths /\ loading) => Rendered = "loading"
    /\ (location \in ProtectedPaths /\ ~loading) => user # NULL
    /\ location \in AuthPaths => user = NULL
    /\ Rendered # "redirect"
    /\ \A loc \in AuthPaths \cup ProtectedPaths, u \in Users \cup {NULL}, ld \in BOOLEAN :
          /\ ProtectedRender(u, ld) = "outlet"   <=> (~ld /\ u # NULL)
          /\ ProtectedRender(u, ld) = "redirect" <=> (~ld /\ u = NULL)
          /\ (~ld /\ u = NULL) => ProtectedRoute(loc, u, ld) = "/login"
          /\ u # NULL => AuthLayout(loc, u) = "/"
          /\ Guard(Guard(loc, u, ld), u, ld) = Guard(loc, u, ld)

\* C16 witness: the profile page is on screen for a signed-in identity
C16_Witness ==
    /\ location = "/profile"
    /\ Rendered = "outlet"
    /\ user # NULL

\* a cycle has run to its end on the page, and its update succeeded
SavedCycle ==
    /\ ppc = "idle"
    /\ InCycle
    /\ \E k \in Returns(pcalls, "update profiles") : pcalls[k].arg = "ok"

\* the re-fetches of the cycle that came back as failures
FailedReloads ==
    {k \in Returns(pcalls, "select profiles") \cup Returns(pcalls, "select profile_changes") :
        pcalls[k].arg # "ok"}

\* the page holds what the store holds for the identity of the cycle, and the
\* next diff against the snapshot finds the submitted values unchanged
SnapshotIsCommitted ==
    /\ profile = profiles[puser]
    /\ form = ResetForm(profiles[puser])
    /\ changes = Reverse(VisibleProfileChanges(session, puser))
    /\ \A f \in ProfileFields : ~FieldChanged(f, pdata, profile)

IsPrefix(s, t) == Len(s) <= Len(t) /\ SubSeq(t, 1, Len(s)) = s

\* C12: every step of the application (registration, sign-in, sign-out, page
\* load, profile submission, with or without failures) leaves the rows that
\* login_history and profile_changes hold as they are and in place; a table
\* only gets rows added.
C12_AppendOnly ==
    [][/\ IsPrefix(login_history, login_history')
       /\ IsPrefix(profile_changes, profile_changes')]_vars

\* C12 witness: both tables have grown
C12_Witness ==
    /\ Len(login_history) >= 1
    /\ Len(profile_changes) >= 1

\* C14: at no time are two profile mutation cycles of the session in
\* progress: while the onSubmit of an earlier submission is still awaiting a
\* call, no other submission has started its own.
C14_NoInterleaving ==
    ~(ppc = "await" /\ detached.pc = "await")

====
